---- MODULE Spec2Model ----
(***************************************************************************)
(* likelihoodfits: the grid data model (Axis, LikelihoodValues,            *)
(* LikelihoodResults), the point-by-point evaluation driver and the HDF5   *)
(* save/load of src/likelihoodfits/classes.py.                             *)
(*                                                                         *)
(* Python and numpy index from 0; TLA+ sequences index from 1.  A grid is  *)
(* a record [dtype, rows, cols, cells] whose cells are a function on       *)
(* (0..rows-1) \X (0..cols-1), addressed <<first index, second index>> as  *)
(* numpy addresses data[i, j].                                             *)
(***************************************************************************)
EXTENDS Integers, Sequences, FiniteSets, TLC

VARIABLES x, y, likelihoods, file, last, nops

vars == <<x, y, likelihoods, file, last, nops>>

\* ------------------------------------------------------------ bounds
MaxAxisLen == 2
MaxOps == 3

\* ------------------------------------------------------------ floats
(* Floating-point values are modelled by integers.  An integer below the   *)
(* encodings stands for the double of that value; PosInf and NegInf stand  *)
(* for the IEEE infinities, and DblBig for a finite double above the       *)
(* largest 4-byte float (such as 1e39), -DblBig for its negative.          *)
PosInf == 2147483647
NegInf == -PosInf
DblBig == 2147483646
\* 2^24: up to here every integer is a 4-byte float; above, the spacing doubles.
F4Mantissa == 16777216
\* A double that is no 4-byte float: 2^24 + 1.
Inexact == F4Mantissa + 1
ClampValue == -200

isinf(v) == v = PosInf \/ v = NegInf

RECURSIVE Ulp(_)
Ulp(a) == IF a < F4Mantissa THEN 1 ELSE 2 * Ulp(a \div 2)

\* Round a >= 0 to the nearest multiple of its 4-byte spacing, ties to even.
RoundF4(a) ==
    LET u == Ulp(a)
        q == a \div u
        r == a % u
    IN  IF 2 * r < u THEN q * u
        ELSE IF 2 * r > u THEN (q + 1) * u
        ELSE IF q % 2 = 0 THEN q * u ELSE (q + 1) * u

\* The narrowing of a double to dtype 'f4'.
F4(v) ==
    IF isinf(v) THEN v
    ELSE IF v = DblBig THEN PosInf
    ELSE IF v = -DblBig THEN NegInf
    ELSE IF v < 0 THEN -RoundF4(-v) ELSE RoundF4(v)

\* What an array of the given dtype keeps of a value assigned to it.
StoreVal(dtype, v) == IF dtype = "f4" THEN F4(v) ELSE v

\* ------------------------------------------------------------ arrays
\* Python's and numpy's index check on a dimension of length n, and the
\* position a (possibly negative) index names.
IndexOK(n, i) == -n <= i /\ i < n
Norm(n, i) == IF i < 0 THEN n + i ELSE i

Full(dtype, r, c, v) ==
    [dtype |-> dtype, rows |-> r, cols |-> c,
     cells |-> [p \in (0 .. r - 1) \X (0 .. c - 1) |-> StoreVal(dtype, v)]]

\* np.zeros((r, c), dtype='f4')
Zeros(r, c) == Full("f4", r, c, 0)

\* np.array(data, dtype='f4') and create_dataset(data=..., dtype='f4')
AsF4(data) ==
    [data EXCEPT !.dtype = "f4",
                 !.cells = [p \in DOMAIN data.cells |-> F4(data.cells[p])]]

SeqF4(ticks) == [i \in 1 .. Len(ticks) |-> F4(ticks[i])]

\* data[i, j] = v
InBounds(data, i, j) == IndexOK(data.rows, i) /\ IndexOK(data.cols, j)
SetItem(data, i, j, v) ==
    [data EXCEPT !.cells[<<Norm(data.rows, i), Norm(data.cols, j)>>] =
                     StoreVal(data.dtype, v)]

\* ------------------------------------------------------------ Axis
Axis(ticks, name, tex_label) ==
    [ticks |-> ticks, name |-> name, tex_label |-> tex_label]

AxisLen(ax) == Len(ax.ticks)

\* Axis.__getitem__: self.ticks[item]
Axis_getitem_nowrap(ax, item) ==
    IF 0 <= item /\ item < AxisLen(ax)
    THEN [err |-> "none", val |-> ax.ticks[item + 1]]
    ELSE [err |-> "IndexError", val |-> 0]

Axis_getitem(ax, item) ==
    IF IndexOK(AxisLen(ax), item)
    THEN [err |-> "none", val |-> ax.ticks[Norm(AxisLen(ax), item) + 1]]
    ELSE [err |-> "IndexError", val |-> 0]

\* ------------------------------------------------------------ LikelihoodValues
LikelihoodValues(data, likelihood, tex_label, order) ==
    [data |-> data, likelihood |-> likelihood, tex_label |-> tex_label,
     order |-> order]

Shape(lh) == <<lh.data.rows, lh.data.cols>>

\* ------------------------------------------------------------ LikelihoodResults
numdata(xax, yax) == AxisLen(xax) * AxisLen(yax)

\* add_likelihood: the two shape checks, then the append.
AddLikelihood_nocheck(lhs, xax, yax, lh) ==
    [likelihoods |-> Append(lhs, lh), err |-> "none"]

AddLikelihood_yfirst(lhs, xax, yax, lh) ==
    IF Shape(lh)[2] # AxisLen(yax)
    THEN [likelihoods |-> lhs, err |-> "ValueError_y"]
    ELSE IF Shape(lh)[1] # AxisLen(xax)
    THEN [likelihoods |-> lhs, err |-> "ValueError_x"]
    ELSE [likelihoods |-> Append(lhs, lh), err |-> "none"]

AddLikelihood(lhs, xax, yax, lh) ==
    IF Shape(lh)[1] # AxisLen(xax)
    THEN [likelihoods |-> lhs, err |-> "ValueError_x"]
    ELSE IF Shape(lh)[2] # AxisLen(yax)
    THEN [likelihoods |-> lhs, err |-> "ValueError_y"]
    ELSE [likelihoods |-> Append(lhs, lh), err |-> "none"]

\* new_likelihood
NewLikelihood_order1(lhs, xax, yax, likelihood, tex_label) ==
    Append(lhs, LikelihoodValues(Zeros(AxisLen(xax), AxisLen(yax)),
                                 likelihood, tex_label, Len(lhs) + 1))

NewLikelihood(lhs, xax, yax, likelihood, tex_label) ==
    Append(lhs, LikelihoodValues(Zeros(AxisLen(xax), AxisLen(yax)),
                                 likelihood, tex_label, Len(lhs)))

\* ------------------------------------------------------------ evaluation
\* Axes in the manner of the tests' (x = [0, 1, ...], y = [6, 7, ...]), cut to a
\* length; x starts at 1 so that no product is the zero a fresh grid holds.
XTicks(n) == [i \in 1 .. n |-> i]
YTicks(n) == [i \in 1 .. n |-> 5 + i]

Ids == {"testnew", "testold"}

(* The evaluation functions the caller supplies: a record [kind, dom].     *)
(* "prod" is the tests' fun(x, y) = {id: x*y for id in dom}.  "edge" is a  *)
(* likelihood that diverges where y is the first tick of the tests' y-axis *)
(* (+inf for one identifier, -inf for the other) and elsewhere returns     *)
(* finite doubles that are no 4-byte floats: one above the 4-byte range,   *)
(* one between two 4-byte floats.                                          *)
Funs ==
    {[kind |-> "prod", dom |-> Ids], [kind |-> "prod", dom |-> {"testnew"}],
     [kind |-> "edge", dom |-> Ids]}

NoFun == [kind |-> "none", dom |-> {}]

FunApply(fun, xv, yv) ==
    [id \in fun.dom |->
        CASE fun.kind = "prod" -> xv * yv
          [] fun.kind = "edge" /\ yv = YTicks(1)[1] ->
                 IF id = "testnew" THEN PosInf ELSE NegInf
          [] fun.kind = "edge" /\ yv # YTicks(1)[1] ->
                 IF id = "testnew" THEN DblBig ELSE Inexact
          [] OTHER -> 0]

\* The loop of calculate_point over self.likelihoods, from position k on.
RECURSIVE WriteAll(_, _, _, _, _)
WriteAll(lhs, lhdict, ix, iy, k) ==
    IF k > Len(lhs) THEN [likelihoods |-> lhs, err |-> "none"]
    ELSE IF lhs[k].likelihood \notin DOMAIN lhdict
    THEN [likelihoods |-> lhs, err |-> "KeyError"]
    ELSE LET lval0 == lhdict[lhs[k].likelihood]
             lval == IF isinf(lval0) THEN ClampValue ELSE lval0
         IN  IF ~InBounds(lhs[k].data, iy, ix)
             THEN [likelihoods |-> lhs, err |-> "IndexError"]
             ELSE WriteAll([lhs EXCEPT ![k].data = SetItem(@, iy, ix, lval)],
                           lhdict, ix, iy, k + 1)

CalculatePointBody(lhs, xax, yax, fun, ix, iy) ==
    LET gx == Axis_getitem(xax, ix)
        gy == Axis_getitem(yax, iy)
    IN  IF gx.err # "none" THEN [likelihoods |-> lhs, err |-> gx.err, called |-> FALSE]
        ELSE IF gy.err # "none" THEN [likelihoods |-> lhs, err |-> gy.err, called |-> FALSE]
        ELSE LET r == WriteAll(lhs, FunApply(fun, gx.val, gy.val), ix, iy, 1)
             IN  [likelihoods |-> r.likelihoods, err |-> r.err, called |-> TRUE]

\* A calculate_point that undoes its writes when a lookup fails.
CalculatePoint_atomic(lhs, xax, yax, fun, ix, iy) ==
    LET r == CalculatePointBody(lhs, xax, yax, fun, ix, iy)
    IN  IF r.err = "KeyError" THEN [r EXCEPT !.likelihoods = lhs] ELSE r

CalculatePoint(lhs, xax, yax, fun, ix, iy) ==
    CalculatePointBody(lhs, xax, yax, fun, ix, iy)

\* itertools.product(range(n), range(m)), as a sequence of <<ix, iy>>.
Product(n, m) == [k \in 1 .. n * m |-> <<(k - 1) \div m, (k - 1) % m>>]

\* The loop of calculate_all from position k of the pairs; evals are the
\* pairs calculate_point was called with.
RECURSIVE Sweep(_, _, _, _, _, _)
Sweep(lhs, xax, yax, fun, pairs, k) ==
    IF k > Len(pairs) THEN [likelihoods |-> lhs, err |-> "none", evals |-> pairs]
    ELSE LET r == CalculatePoint(lhs, xax, yax, fun, pairs[k][1], pairs[k][2])
         IN  IF r.err # "none"
             THEN [likelihoods |-> r.likelihoods, err |-> r.err,
                   evals |-> SubSeq(pairs, 1, k)]
             ELSE Sweep(r.likelihoods, xax, yax, fun, pairs, k + 1)

CalculateAll(lhs, xax, yax, fun) ==
    Sweep(lhs, xax, yax, fun, Product(AxisLen(xax), AxisLen(yax)), 1)

\* ------------------------------------------------------------ HDF5
NoGroups == [k \in {} |-> 0]

NoFile ==
    [exists |-> FALSE, x |-> <<>>, y |-> <<>>, xname |-> "", xtex |-> "",
     yname |-> "", ytex |-> "", groups |-> NoGroups]

\* The loop of to_hdf5 over self.likelihoods: create_group raises on a name
\* the file already holds.
RECURSIVE WriteGroups(_, _, _)
WriteGroups(groups, lhs, k) ==
    IF k > Len(lhs) THEN [groups |-> groups, err |-> "none"]
    ELSE IF lhs[k].likelihood \in DOMAIN groups
    THEN [groups |-> groups, err |-> "ValueError"]
    ELSE WriteGroups(
             [id \in DOMAIN groups \cup {lhs[k].likelihood} |->
                 IF id \in DOMAIN groups THEN groups[id]
                 ELSE [tex |-> lhs[k].tex_label, order |-> lhs[k].order,
                       values |-> AsF4(lhs[k].data)]],
             lhs, k + 1)

ToHdf5(xax, yax, lhs) ==
    LET w == WriteGroups(NoGroups, lhs, 1)
    IN  [file |-> [exists |-> TRUE, x |-> SeqF4(xax.ticks), y |-> SeqF4(yax.ticks),
                   xname |-> xax.name, xtex |-> xax.tex_label,
                   yname |-> yax.name, ytex |-> yax.tex_label,
                   groups |-> w.groups],
         err |-> w.err]

\* h5py iterates a group's members by name.
KeyRank(k) == IF k = "testnew" THEN 1 ELSE 2

RECURSIVE Keys(_)
Keys(S) ==
    IF S = {} THEN <<>>
    ELSE LET k == CHOOSE a \in S : \A b \in S : KeyRank(a) <= KeyRank(b)
         IN  <<k>> \o Keys(S \ {k})

\* list.sort(key=lambda x: x.order): stable, ascending.
RECURSIVE Insert(_, _)
Insert(s, e) ==
    IF s = <<>> THEN <<e>>
    ELSE IF s[Len(s)].order <= e.order THEN Append(s, e)
    ELSE Append(Insert(SubSeq(s, 1, Len(s) - 1), e), s[Len(s)])

RECURSIVE SortByOrder(_)
SortByOrder(s) ==
    IF s = <<>> THEN <<>>
    ELSE Insert(SortByOrder(SubSeq(s, 1, Len(s) - 1)), s[Len(s)])

\* The loop of from_hdf5 over f['likelihoods'].keys(), from position k.
RECURSIVE ReadGroups(_, _, _, _, _, _)
ReadGroups(results, xax, yax, groups, keys, k) ==
    IF k > Len(keys) THEN [likelihoods |-> results, err |-> "none"]
    ELSE LET g == groups[keys[k]]
             lh == LikelihoodValues(AsF4(g.values), keys[k], g.tex, g.order)
             r == AddLikelihood(results, xax, yax, lh)
         IN  IF r.err # "none" THEN [likelihoods |-> results, err |-> r.err]
             ELSE ReadGroups(SortByOrder(r.likelihoods), xax, yax, groups, keys, k + 1)

FromHdf5(f) ==
    LET xax == Axis(SeqF4(f.x), f.xname, f.xtex)
        yax == Axis(SeqF4(f.y), f.yname, f.ytex)
        r == ReadGroups(<<>>, xax, yax, f.groups, Keys(DOMAIN f.groups), 1)
    IN  [x |-> xax, y |-> yax, likelihoods |-> r.likelihoods, err |-> r.err]

\* ------------------------------------------------------------ the state machine
NoLh == LikelihoodValues(Full("f4", 0, 0, 0), "", "", 0)

\* last: what the last call was, with its arguments, the object before it, and
\* what it raised or returned.  nops counts the calls made.
Last(op, err, ax, ix, iy, fun, lh, evals, val) ==
    [op |-> op, err |-> err, ax |-> ax, ix |-> ix, iy |-> iy, fun |-> fun,
     lh |-> lh, evals |-> evals, val |-> val,
     x |-> x, y |-> y, pre |-> likelihoods,
     fresh |-> last.fresh /\ op = "new_likelihood"]

Init ==
    /\ \E n \in 1 .. MaxAxisLen : x = Axis(XTicks(n), "x", "x")
    /\ \E m \in 1 .. MaxAxisLen : y = Axis(YTicks(m), "y", "y")
    /\ likelihoods = <<>>
    /\ file = NoFile
    /\ nops = 0
    /\ last = [op |-> "init", err |-> "none", ax |-> "", ix |-> 0, iy |-> 0,
               fun |-> NoFun, lh |-> NoLh, evals |-> <<>>, val |-> 0,
               x |-> x, y |-> y, pre |-> <<>>, fresh |-> TRUE]

getitem ==
    /\ nops < MaxOps
    /\ \E ax \in {"x", "y"}, item \in -(MaxAxisLen + 1) .. MaxAxisLen :
          LET r == Axis_getitem(IF ax = "x" THEN x ELSE y, item)
          IN  last' = Last("getitem", r.err, ax, item, 0, NoFun, NoLh, <<>>, r.val)
    /\ nops' = nops + 1
    /\ UNCHANGED <<x, y, likelihoods, file>>

new_likelihood ==
    /\ nops < MaxOps
    /\ \E likelihood \in Ids, tex_label \in {"tex"} :
          /\ likelihoods' = NewLikelihood(likelihoods, x, y, likelihood, tex_label)
          /\ last' = Last("new_likelihood", "none", "", 0, 0, NoFun,
                          LikelihoodValues(Full("f4", 0, 0, 0), likelihood, tex_label, 0),
                          <<>>, 0)
    /\ nops' = nops + 1
    /\ UNCHANGED <<x, y, file>>

add_likelihood ==
    /\ nops < MaxOps
    /\ \E r \in 1 .. MaxAxisLen, c \in 1 .. MaxAxisLen, likelihood \in Ids,
          order \in {0, 1} :
          LET lh == LikelihoodValues(Full("f8", r, c, 7), likelihood, "rnd", order)
              res == AddLikelihood(likelihoods, x, y, lh)
          IN  /\ likelihoods' = res.likelihoods
              /\ last' = Last("add_likelihood", res.err, "", 0, 0, NoFun, lh, <<>>, 0)
    /\ nops' = nops + 1
    /\ UNCHANGED <<x, y, file>>

calculate_point ==
    /\ nops < MaxOps
    /\ \E fun \in Funs, ix \in 0 .. MaxAxisLen - 1, iy \in 0 .. MaxAxisLen - 1 :
          LET res == CalculatePoint(likelihoods, x, y, fun, ix, iy)
          IN  /\ likelihoods' = res.likelihoods
              /\ last' = Last("calculate_point", res.err, "", ix, iy, fun, NoLh,
                              IF res.called THEN <<<<ix, iy>>>> ELSE <<>>, 0)
    /\ nops' = nops + 1
    /\ UNCHANGED <<x, y, file>>

calculate_all ==
    /\ nops < MaxOps
    /\ \E fun \in Funs :
          LET res == CalculateAll(likelihoods, x, y, fun)
          IN  /\ likelihoods' = res.likelihoods
              /\ last' = Last("calculate_all", res.err, "", 0, 0, fun, NoLh,
                              res.evals, 0)
    /\ nops' = nops + 1
    /\ UNCHANGED <<x, y, file>>

to_hdf5 ==
    /\ nops < MaxOps
    /\ LET res == ToHdf5(x, y, likelihoods)
       IN  /\ file' = res.file
           /\ last' = Last("to_hdf5", res.err, "", 0, 0, NoFun, NoLh, <<>>, 0)
    /\ nops' = nops + 1
    /\ UNCHANGED <<x, y, likelihoods>>

from_hdf5 ==
    /\ nops < MaxOps
    /\ file.exists
    /\ LET res == FromHdf5(file)
       IN  /\ IF res.err = "none"
              THEN x' = res.x /\ y' = res.y /\ likelihoods' = res.likelihoods
              ELSE UNCHANGED <<x, y, likelihoods>>
           /\ last' = Last("from_hdf5", res.err, "", 0, 0, NoFun, NoLh, <<>>, 0)
    /\ nops' = nops + 1
    /\ UNCHANGED file

Next ==
    \/ new_likelihood
    \/ add_likelihood
    \/ calculate_point
    \/ calculate_all
    \/ to_hdf5
    \/ from_hdf5

Spec == Init /\ [][Next]_vars

\* Axis indexing alone: reads of the two axes.
NextAxis == getitem

SpecAxis == Init /\ [][NextAxis]_vars

\* ------------------------------------------------------------ claims
\* The identifiers registered in a list of likelihoods.
Registered(lhs) == {lhs[k].likelihood : k \in 1 .. Len(lhs)}

\* The last call's indices lie in [0, x-length) and [0, y-length).
InRange == /\ 0 <= last.ix /\ last.ix < AxisLen(last.x)
           /\ 0 <= last.iy /\ last.iy < AxisLen(last.y)

\* What the last call's function returns at (x[ix], y[iy]).
Returned == FunApply(last.fun, last.x.ticks[last.ix + 1], last.y.ticks[last.iy + 1])

\* The value a grid keeps of a returned value: the clamp sentinel for an
\* infinity, in the grid's element type.
Kept(lh, v) == StoreVal(lh.data.dtype, IF isinf(v) THEN ClampValue ELSE v)

\* The position of the first likelihood whose identifier is not in dom.
FirstMissing(lhs, dom) ==
    CHOOSE k \in 1 .. Len(lhs) :
        /\ lhs[k].likelihood \notin dom
        /\ \A j \in 1 .. k - 1 : lhs[j].likelihood \in dom

(* C1: for any axes, of equal or different lengths, any ix in              *)
(* [0, x-length), iy in [0, y-length) and a function returning every       *)
(* registered identifier, calculate_point succeeds, and cell [iy, ix] of   *)
(* every registered grid then holds the returned value of its identifier   *)
(* (the clamp sentinel for an infinity).                                   *)
C1_CalculatePointWritesCell ==
    (last.op = "calculate_point" /\ InRange
        /\ Registered(last.pre) \subseteq DOMAIN Returned)
    => /\ last.err = "none"
       /\ \A k \in 1 .. Len(likelihoods) :
             /\ <<last.iy, last.ix>> \in DOMAIN likelihoods[k].data.cells
             /\ likelihoods[k].data.cells[<<last.iy, last.ix>>]
                    = Kept(likelihoods[k], Returned[likelihoods[k].likelihood])

(* C2: for any axes and a function returning every registered identifier,  *)
(* calculate_all ends without error having evaluated the function exactly  *)
(* once for each (ix, iy) of the Cartesian product: numdata evaluations.   *)
C2_CalculateAllSweepsEveryCell ==
    (last.op = "calculate_all" /\ Registered(last.pre) \subseteq last.fun.dom)
    => /\ last.err = "none"
       /\ Len(last.evals) = numdata(last.x, last.y)
       /\ \A ix \in 0 .. AxisLen(last.x) - 1, iy \in 0 .. AxisLen(last.y) - 1 :
             Cardinality({k \in 1 .. Len(last.evals) : last.evals[k] = <<ix, iy>>}) = 1

(* C3: add_likelihood raises the x-direction error when shape[0] differs   *)
(* from the x-length (checked first), the y-direction error when shape[1]  *)
(* differs from the y-length, in both cases leaving the list as it was;    *)
(* when both match, the list grows by that one instance, appended as       *)
(* given, the earlier entries unchanged.                                   *)
C3_AddLikelihoodValidates ==
    last.op = "add_likelihood"
    => LET xbad == last.lh.data.rows # AxisLen(last.x)
           ybad == last.lh.data.cols # AxisLen(last.y)
       IN  /\ xbad => last.err = "ValueError_x" /\ likelihoods = last.pre
           /\ (~xbad /\ ybad) => last.err = "ValueError_y" /\ likelihoods = last.pre
           /\ (~xbad /\ ~ybad) =>
                 /\ last.err = "none"
                 /\ Len(likelihoods) = Len(last.pre) + 1
                 /\ likelihoods[Len(likelihoods)] = last.lh
                 /\ \A k \in 1 .. Len(last.pre) : likelihoods[k] = last.pre[k]

\* C3's case: an instance appended behind another, its order not its position.
C3_Witness ==
    /\ last.op = "add_likelihood" /\ last.err = "none"
    /\ Len(last.pre) >= 1
    /\ likelihoods[Len(likelihoods)].order # Len(last.pre)

(* C4: when a registered identifier is absent from the function's result,  *)
(* calculate_point raises the lookup error; inside calculate_all the sweep *)
(* stops at that cell: no later pair is evaluated, no later cell written.  *)
C4_MissingIdentifierIsKeyError ==
    /\ (last.op = "calculate_point" /\ InRange
           /\ ~(Registered(last.pre) \subseteq DOMAIN Returned))
       => last.err = "KeyError"
    /\ (last.op = "calculate_all" /\ ~(Registered(last.pre) \subseteq last.fun.dom))
       => /\ last.err = "KeyError"
          /\ last.evals = <<<<0, 0>>>>
          /\ \A k \in 1 .. Len(likelihoods) :
                \A p \in DOMAIN likelihoods[k].data.cells :
                    p # <<0, 0>> =>
                        likelihoods[k].data.cells[p] = last.pre[k].data.cells[p]

\* Every value the object holds is a 4-byte float.
Representable ==
    /\ \A i \in 1 .. Len(x.ticks) : F4(x.ticks[i]) = x.ticks[i]
    /\ \A i \in 1 .. Len(y.ticks) : F4(y.ticks[i]) = y.ticks[i]
    /\ \A k \in 1 .. Len(likelihoods) :
          \A p \in DOMAIN likelihoods[k].data.cells :
              F4(likelihoods[k].data.cells[p]) = likelihoods[k].data.cells[p]

(* C5: for every object the operations reach whose values are 4-byte       *)
(* floats, to_hdf5 then from_hdf5 succeed and give the same axis ticks,    *)
(* names and labels and the same sequence of likelihoods: identifiers,     *)
(* labels, ordering keys and grid values, in the same order.               *)
C5_RoundTrip ==
    (last.op = "to_hdf5" /\ Representable)
    => /\ last.err = "none"
       /\ LET r == FromHdf5(file)
          IN  /\ r.err = "none"
              /\ r.x = x /\ r.y = y
              /\ Len(r.likelihoods) = Len(likelihoods)
              /\ \A k \in 1 .. Len(likelihoods) :
                    /\ r.likelihoods[k].likelihood = likelihoods[k].likelihood
                    /\ r.likelihoods[k].tex_label = likelihoods[k].tex_label
                    /\ r.likelihoods[k].order = likelihoods[k].order
                    /\ r.likelihoods[k].data.rows = likelihoods[k].data.rows
                    /\ r.likelihoods[k].data.cols = likelihoods[k].data.cols
                    /\ r.likelihoods[k].data.cells = likelihoods[k].data.cells

(* C6: when calculate_point completes, a cell whose returned value was an  *)
(* infinity holds exactly -200.0 and any other returned value is stored as *)
(* returned (in the grid's element type); so no cell written holds an      *)
(* infinite value.                                                         *)
C6_NoInfiniteCell ==
    (last.op = "calculate_point" /\ last.err = "none")
    => \A k \in 1 .. Len(likelihoods) :
          LET v == Returned[likelihoods[k].likelihood]
              c == likelihoods[k].data.cells[<<last.iy, last.ix>>]
          IN  /\ isinf(v) => c = ClampValue
              /\ ~isinf(v) => c = StoreVal(likelihoods[k].data.dtype, v)
              /\ ~isinf(c)

(* C7: new_likelihood appends one LikelihoodValues with an all-zero grid   *)
(* of shape (x-length, y-length), the given identifier and label and an    *)
(* ordering key equal to the number of likelihoods before the call, the    *)
(* earlier entries unchanged; on a fresh object k calls give the keys      *)
(* 0 .. k-1 in append order.                                               *)
C7_NewLikelihoodAppends ==
    last.op = "new_likelihood"
    => /\ Len(likelihoods) = Len(last.pre) + 1
       /\ \A k \in 1 .. Len(last.pre) : likelihoods[k] = last.pre[k]
       /\ LET l == likelihoods[Len(likelihoods)]
          IN  /\ l.likelihood = last.lh.likelihood
              /\ l.tex_label = last.lh.tex_label
              /\ l.order = Len(last.pre)
              /\ l.data.rows = AxisLen(x) /\ l.data.cols = AxisLen(y)
              /\ DOMAIN l.data.cells = (0 .. AxisLen(x) - 1) \X (0 .. AxisLen(y) - 1)
              /\ \A p \in DOMAIN l.data.cells : l.data.cells[p] = 0
       /\ last.fresh => \A k \in 1 .. Len(likelihoods) : likelihoods[k].order = k - 1

\* C7's case: three likelihoods registered on a fresh object.
C7_Witness ==
    last.op = "new_likelihood" /\ last.fresh /\ Len(likelihoods) = 3

\* The axis the last getitem read, and its length.
ReadAxis == IF last.ax = "x" THEN last.x ELSE last.y

(* C8, as stated: indexing an Axis of N ticks with i in [0, N) returns     *)
(* tick i, and with any integer outside [0, N), i >= N or i < 0, raises    *)
(* the index error.                                                        *)
C8_OutsideRangeRaises ==
    last.op = "getitem"
    => LET N == AxisLen(ReadAxis)
       IN  /\ (0 <= last.ix /\ last.ix < N) =>
                 last.err = "none" /\ last.val = ReadAxis.ticks[last.ix + 1]
           /\ (last.ix >= N \/ last.ix < 0) => last.err = "IndexError"

(* C8, amended: indexing with i in [0, N) returns tick i, with i in        *)
(* [-N, 0) returns tick N + i, and only i >= N or i < -N raises the index  *)
(* error.                                                                  *)
C8_GetItemFollowsSequence ==
    last.op = "getitem"
    => LET N == AxisLen(ReadAxis)
       IN  /\ (0 <= last.ix /\ last.ix < N) =>
                 last.err = "none" /\ last.val = ReadAxis.ticks[last.ix + 1]
           /\ (-N <= last.ix /\ last.ix < 0) =>
                 last.err = "none" /\ last.val = ReadAxis.ticks[N + last.ix + 1]
           /\ (last.ix >= N \/ last.ix < -N) => last.err = "IndexError"

\* C8's case: a negative index that names a tick other than the first.
C8_Witness ==
    /\ last.op = "getitem" /\ last.ix < 0 /\ last.err = "none"
    /\ last.val # ReadAxis.ticks[1]

(* C9: in every state every registered grid has first dimension the        *)
(* x-length and second dimension the y-length, and no call on an object    *)
(* changes the length of an axis or the shape of a grid registered before. *)
C9_ShapesMatchAxes ==
    /\ \A k \in 1 .. Len(likelihoods) :
          /\ likelihoods[k].data.rows = AxisLen(x)
          /\ likelihoods[k].data.cols = AxisLen(y)
          /\ DOMAIN likelihoods[k].data.cells
                 = (0 .. AxisLen(x) - 1) \X (0 .. AxisLen(y) - 1)
    /\ last.op \notin {"init", "from_hdf5"} =>
          /\ AxisLen(x) = AxisLen(last.x) /\ AxisLen(y) = AxisLen(last.y)
          /\ Len(likelihoods) >= Len(last.pre)
          /\ \A k \in 1 .. Len(last.pre) : Shape(likelihoods[k]) = Shape(last.pre[k])

\* C9's case: an object loaded from a file, holding a likelihood.
C9_Witness ==
    last.op = "from_hdf5" /\ last.err = "none" /\ Len(likelihoods) >= 1

(* C10: when calculate_point raises the lookup error, every likelihood     *)
(* before the first missing one has had cell [iy, ix] overwritten with the *)
(* new value, every likelihood from the first missing one on is as it was, *)
(* and no other cell, no axis and no identifier, label or ordering key has *)
(* changed.                                                                *)
C10_LookupFailureIsPartial ==
    (last.op = "calculate_point" /\ last.err = "KeyError")
    => LET k0 == FirstMissing(last.pre, DOMAIN Returned)
       IN  /\ x = last.x /\ y = last.y
           /\ Len(likelihoods) = Len(last.pre)
           /\ \A k \in 1 .. Len(likelihoods) :
                 /\ likelihoods[k].likelihood = last.pre[k].likelihood
                 /\ likelihoods[k].tex_label = last.pre[k].tex_label
                 /\ likelihoods[k].order = last.pre[k].order
                 /\ k >= k0 => likelihoods[k] = last.pre[k]
                 /\ k < k0 =>
                       /\ likelihoods[k].data.rows = last.pre[k].data.rows
                       /\ likelihoods[k].data.cols = last.pre[k].data.cols
                       /\ likelihoods[k].data.dtype = last.pre[k].data.dtype
                       /\ \A p \in DOMAIN likelihoods[k].data.cells :
                             likelihoods[k].data.cells[p] =
                                 IF p = <<last.iy, last.ix>>
                                 THEN Kept(last.pre[k], Returned[last.pre[k].likelihood])
                                 ELSE last.pre[k].data.cells[p]

\* C10's case: the lookup fails behind a likelihood whose cell has changed.
C10_Witness ==
    /\ last.op = "calculate_point" /\ last.err = "KeyError"
    /\ FirstMissing(last.pre, DOMAIN Returned) > 1
    /\ likelihoods[1].data.cells[<<last.iy, last.ix>>]
           # last.pre[1].data.cells[<<last.iy, last.ix>>]

====
